---- MODULE Spec2Model ----
(***************************************************************************)
(* Model of dawarich-cleaner's outlier detector,                           *)
(* app/services/outlier_detector.py: detect_outliers(points, max_speed_ms, *)
(* max_distance_m) with its three passes.                                  *)
(*                                                                         *)
(* Numbers.  The code computes in floating point; the model computes the   *)
(* same expressions in exact rationals <<num, den>> (den > 0), with        *)
(* float("inf") as <<1, 0>>.  The two agree except where a comparison of   *)
(* the code falls exactly on its threshold.                                *)
(*                                                                         *)
(* Geometry.  All points of a batch lie on one meridian (longitude 0) and  *)
(* latitude is counted in metres of arc, so that the haversine formula     *)
(* reduces to R * |dlat| = |lat2 - lat1| metres.                            *)
(*                                                                         *)
(* Time.  A timestamp of the model is the offset of the raw value from the *)
(* batch's origin ts_unit * Origin, where Origin is a present-day epoch    *)
(* second (1e8 < Origin < 1e11 - MaxTs) and ts_unit is the number of ticks *)
(* per second of the batch: 1 for a batch given in seconds, 1000 for one   *)
(* given in milliseconds.  The raw value exceeds 1e11 exactly when         *)
(* ts_unit = 1000.  The code only compares and subtracts timestamps, which *)
(* the offsets preserve.                                                   *)
(***************************************************************************)
EXTENDS Integers, Sequences, FiniteSets, TLC

VARIABLES
    points,          \* the batch passed to detect_outliers, in submission order
    max_speed_ms,    \* threshold argument (m/s)
    max_distance_m,  \* threshold argument (m)
    ts_unit,         \* ticks per second of the batch's timestamps (1 or 1000)
    pc,              \* "call" before detect_outliers runs, "done" after it returned
    pts,             \* detect_outliers' local: normalized points sorted by timestamp
    outliers,        \* detect_outliers' local: Pass 1 + Pass 2 candidates, append order
    result,          \* the returned list
    flagged_points,  \* rows of table flagged_points (models.FlaggedPoint)
    scan_history,    \* rows of table scan_history (models.ScanHistory)
    now,             \* the wall clock, epoch seconds
    sched,           \* AutoScanScheduler: position and locals of _run_loop / _run_scan
    save_call,       \* the last save_flagged_point call: its argument and return value
    manual,          \* the POST /scan request in flight: position and locals of scan()
    review_call      \* the last POST /action/{action} request: action and selected ids

detvars == <<points, max_speed_ms, max_distance_m, ts_unit, pc, pts, outliers, result>>
appvars == <<flagged_points, scan_history, now, sched, save_call, manual, review_call>>
vars == <<points, max_speed_ms, max_distance_m, ts_unit, pc, pts, outliers, result,
          flagged_points, scan_history, now, sched, save_call, manual,
          review_call>>

-----------------------------------------------------------------------------
(* Bounds of the model *)

MaxBatch == 4        \* free-form batches have 0..MaxBatch points
MaxTs == 2           \* their timestamps are 0..MaxTs seconds after the origin
TrackLen == 5        \* tracks submitted in time order have TrackLen points
MaxGap == 2          \* with 1..MaxGap seconds between consecutive fixes
PosStep == 40        \* positions are multiples of PosStep metres
MaxFirstId == 1      \* ids are FirstId, FirstId+1, ... with FirstId in 0..MaxFirstId
MaxDamaged == 3      \* batches with a damaged point have 0..MaxDamaged points
MaxPointId == 2      \* records passed to save_flagged_point are about points 1..MaxPointId

PosSet == {0, PosStep, 3 * PosStep}
SpeedSet == {30, 50}      \* max_speed_ms values (callers pass 30, the default is 50)
DistanceSet == {5, 100}   \* max_distance_m values (scan.py accepts 5..10000)
UnitSet == {1, 1000}

-----------------------------------------------------------------------------
(* Exact rational arithmetic standing in for Python floats *)

Abs(x) == IF x < 0 THEN -x ELSE x

RECURSIVE Gcd(_, _)
Gcd(a, b) == IF b = 0 THEN a ELSE Gcd(b, a % b)

\* a/b in lowest terms with a positive denominator (b # 0)
Rat(a, b) ==
    LET s == IF b < 0 THEN -1 ELSE 1
        g == Gcd(Abs(a), Abs(b))
    IN  <<(s * a) \div g, (s * b) \div g>>

Inf == <<1, 0>>
IsFinite(x) == x[2] # 0
RInt(n) == <<n, 1>>
RLt(x, y) == x[1] * y[2] < y[1] * x[2]
RLe(x, y) == ~RLt(y, x)
RMin(x, y) == IF RLt(y, x) THEN y ELSE x      \* Python min(x, y)
RMax(x, y) == IF RLt(x, y) THEN y ELSE x      \* Python max(x, y)
RAdd(x, y) == Rat(x[1] * y[2] + y[1] * x[2], x[2] * y[2])
RSub(x, y) == Rat(x[1] * y[2] - y[1] * x[2], x[2] * y[2])
RMul(x, y) == Rat(x[1] * y[1], x[2] * y[2])
RDiv(x, y) == Rat(x[1] * y[2], x[2] * y[1])

-----------------------------------------------------------------------------
(* Primitives *)

None == -1     \* Python None in previous_point_id / next_point_id (ids are >= 0)

\* a field value int() / float() cannot convert: a missing key, None, or a string
\* that is not a number
NotNumeric == -2

\* `if prev_id:` - None and 0 are both falsy
Truthy(x) == x # None /\ x # 0

\* great-circle distance in metres, for two points on the same meridian
haversine_distance(lat1, lon1, lat2, lon2) == RInt(Abs(lat2 - lat1))

\* mutant of calculate_speed: the distance returned without dividing by dt_sec
calculate_speedNoDt(point1, point2) ==
    LET distance_m == haversine_distance(point1.latitude, point1.longitude,
                                         point2.latitude, point2.longitude)
        dt_sec == point2.timestamp - point1.timestamp
    IN  IF dt_sec <= 0 THEN Inf ELSE distance_m

calculate_speed(point1, point2) ==
    LET distance_m == haversine_distance(point1.latitude, point1.longitude,
                                         point2.latitude, point2.longitude)
        dt_sec == point2.timestamp - point1.timestamp
    IN  IF dt_sec <= 0 THEN Inf ELSE RDiv(distance_m, RInt(dt_sec))

-----------------------------------------------------------------------------
(* Python's sorted() / list.sort(): a stable sort.  lt[i, j] is "the key of  *)
(* s[i] is strictly before the key of s[j]"; equal keys keep their order.    *)

StableSort(s, lt) ==
    LET n == Len(s)
        rank(i) == Cardinality({j \in 1..n :
                        lt[j, i] \/ (~lt[i, j] /\ j < i)}) + 1
    IN  [r \in 1..n |-> s[CHOOSE i \in 1..n : rank(i) = r]]

-----------------------------------------------------------------------------
(* detect_outliers *)

\* mutant of Coercible: the timestamp taken as it is, without float()
CoercibleExceptTimestamp(p) ==
    /\ p.id # NotNumeric
    /\ p.latitude # NotNumeric
    /\ p.longitude # NotNumeric

\* lines 66-69: int(p["id"]), float(p["latitude"]), float(p["longitude"]) and
\* float(p["timestamp"]) all succeed
Coercible(p) ==
    /\ p.id # NotNumeric
    /\ p.latitude # NotNumeric
    /\ p.longitude # NotNumeric
    /\ p.timestamp # NotNumeric

\* lines 64-78 run to the end of the loop
CanNormalize(batch) == \A i \in 1..Len(batch) : Coercible(batch[i])

\* lines 64-78: each point becomes a fresh dict of the four coerced fields
Normalize(p) ==
    [id |-> p.id, latitude |-> p.latitude, longitude |-> p.longitude,
     timestamp |-> p.timestamp]

\* line 81: pts = sorted(normalized, key=lambda p: p["timestamp"])
SortByTimestamp(normalized) ==
    StableSort(normalized, [i, j \in 1..Len(normalized) |->
                               normalized[i].timestamp < normalized[j].timestamp])

\* lines 85-91: derived thresholds
\* mutant of max_jump_dt_sec: the window fixed at its lower clamp
max_jump_dt_secFixed(D) == RInt(1)

max_jump_dt_sec(D) == RMax(RInt(1), RMin(RInt(10), Rat(D, 50)))
spike_neighbor_close_m(D) == RMax(RInt(D * 2), RInt(10))

\* the `prev` / `nxt` argument of add_outlier when there is no such point
NoPoint == [id |-> None, latitude |-> 0, longitude |-> 0, timestamp |-> 0]

\* mutant of Clamp01: the score kept as a percentage
Clamp01AsPercent(confidence) ==
    RMul(RInt(100), RMax(RInt(0), RMin(RInt(1), confidence)))

\* line 104: float(max(0.0, min(1.0, confidence)))
Clamp01(confidence) == RMax(RInt(0), RMin(RInt(1), confidence))

\* mutant of add_outlier: the two neighbour ids exchanged
add_outlierSwapped(cur, prev, nxt, reason, details, confidence) ==
    [point_id |-> cur.id,
     latitude |-> cur.latitude,
     longitude |-> cur.longitude,
     timestamp |-> cur.timestamp,
     detection_reason |-> reason,
     detection_details |-> details,
     confidence_score |-> Clamp01(confidence),
     previous_point_id |-> IF nxt # NoPoint THEN nxt.id ELSE None,
     next_point_id |-> IF prev # NoPoint THEN prev.id ELSE None]

\* lines 95-108
add_outlier(cur, prev, nxt, reason, details, confidence) ==
    [point_id |-> cur.id,
     latitude |-> cur.latitude,
     longitude |-> cur.longitude,
     timestamp |-> cur.timestamp,
     detection_reason |-> reason,
     detection_details |-> details,
     confidence_score |-> Clamp01(confidence),
     previous_point_id |-> IF prev # NoPoint THEN prev.id ELSE None,
     next_point_id |-> IF nxt # NoPoint THEN nxt.id ELSE None]

\* mutant of Pass1From: the next point looked up with `i + 2 < len(pts)`
RECURSIVE Pass1FromEarlyEnd(_, _)
Pass1FromEarlyEnd(ps, i) ==
    IF i > Len(ps) THEN <<>>
    ELSE (IF ps[i].timestamp <= ps[i - 1].timestamp
          THEN <<add_outlier(ps[i], ps[i - 1],
                             IF i + 2 <= Len(ps) THEN ps[i + 1] ELSE NoPoint,
                             "non_increasing_timestamp",
                             [prev_timestamp |-> ps[i - 1].timestamp,
                              cur_timestamp |-> ps[i].timestamp],
                             Rat(9, 10))>>
          ELSE <<>>) \o Pass1FromEarlyEnd(ps, i + 1)

\* mutant of Pass1From: `<` for `<=`, so that equal timestamps pass
RECURSIVE Pass1FromStrict(_, _)
Pass1FromStrict(ps, i) ==
    IF i > Len(ps) THEN <<>>
    ELSE (IF ps[i].timestamp < ps[i - 1].timestamp
          THEN <<add_outlier(ps[i], ps[i - 1],
                             IF i + 1 <= Len(ps) THEN ps[i + 1] ELSE NoPoint,
                             "non_increasing_timestamp",
                             [prev_timestamp |-> ps[i - 1].timestamp,
                              cur_timestamp |-> ps[i].timestamp],
                             Rat(9, 10))>>
          ELSE <<>>) \o Pass1FromStrict(ps, i + 1)

\* lines 112-128, from index i (1-based; the code's range(1, len) is 2..Len)
RECURSIVE Pass1From(_, _)
Pass1From(ps, i) ==
    IF i > Len(ps) THEN <<>>
    ELSE (IF ps[i].timestamp <= ps[i - 1].timestamp
          THEN <<add_outlier(ps[i], ps[i - 1],
                             IF i + 1 <= Len(ps) THEN ps[i + 1] ELSE NoPoint,
                             "non_increasing_timestamp",
                             [prev_timestamp |-> ps[i - 1].timestamp,
                              cur_timestamp |-> ps[i].timestamp],
                             Rat(9, 10))>>
          ELSE <<>>) \o Pass1From(ps, i + 1)

Pass1(ps) == Pass1From(ps, 2)

\* mutant of Signals: the spike pattern left out of jump_flag
SignalsNoSpike(ps, i, V, D) ==
    LET prev == ps[i - 1]
        cur == ps[i]
        nxt == ps[i + 1]
        dt_prev == cur.timestamp - prev.timestamp
        dt_next == nxt.timestamp - cur.timestamp
        d_prev_cur == haversine_distance(prev.latitude, prev.longitude,
                                         cur.latitude, cur.longitude)
        d_cur_next == haversine_distance(cur.latitude, cur.longitude,
                                         nxt.latitude, nxt.longitude)
        d_prev_next == haversine_distance(prev.latitude, prev.longitude,
                                          nxt.latitude, nxt.longitude)
        speed_to == IF dt_prev > 0 THEN calculate_speed(prev, cur) ELSE Inf
        speed_from == IF dt_next > 0 THEN calculate_speed(cur, nxt) ELSE Inf
        limit == RMul(RInt(V), Rat(115, 100))
        speed_flag == RLt(limit, speed_to) \/ RLt(limit, speed_from)
        spike == /\ RLt(RInt(D), d_prev_cur)
                 /\ RLt(RInt(D), d_cur_next)
                 /\ RLt(d_prev_next, spike_neighbor_close_m(D))
        jump_flag ==
            \/ (dt_prev > 0 /\ RLt(RInt(dt_prev), max_jump_dt_sec(D))
                    /\ RLt(RInt(D), d_prev_cur))
            \/ (dt_next > 0 /\ RLt(RInt(dt_next), max_jump_dt_sec(D))
                    /\ RLt(RInt(D), d_cur_next))
    IN  [d_prev_cur |-> d_prev_cur, d_cur_next |-> d_cur_next,
         d_prev_next |-> d_prev_next, speed_to |-> speed_to,
         speed_from |-> speed_from, speed_flag |-> speed_flag,
         jump_flag |-> jump_flag, spike |-> spike]

\* lines 132-177: the signals of the interior point ps[i]
Signals(ps, i, V, D) ==
    LET prev == ps[i - 1]
        cur == ps[i]
        nxt == ps[i + 1]
        dt_prev == cur.timestamp - prev.timestamp
        dt_next == nxt.timestamp - cur.timestamp
        d_prev_cur == haversine_distance(prev.latitude, prev.longitude,
                                         cur.latitude, cur.longitude)
        d_cur_next == haversine_distance(cur.latitude, cur.longitude,
                                         nxt.latitude, nxt.longitude)
        d_prev_next == haversine_distance(prev.latitude, prev.longitude,
                                          nxt.latitude, nxt.longitude)
        speed_to == IF dt_prev > 0 THEN calculate_speed(prev, cur) ELSE Inf
        speed_from == IF dt_next > 0 THEN calculate_speed(cur, nxt) ELSE Inf
        limit == RMul(RInt(V), Rat(115, 100))
        speed_flag == RLt(limit, speed_to) \/ RLt(limit, speed_from)
        spike == /\ RLt(RInt(D), d_prev_cur)
                 /\ RLt(RInt(D), d_cur_next)
                 /\ RLt(d_prev_next, spike_neighbor_close_m(D))
        jump_flag ==
            \/ (dt_prev > 0 /\ RLt(RInt(dt_prev), max_jump_dt_sec(D))
                    /\ RLt(RInt(D), d_prev_cur))
            \/ (dt_next > 0 /\ RLt(RInt(dt_next), max_jump_dt_sec(D))
                    /\ RLt(RInt(D), d_cur_next))
            \/ spike
    IN  [d_prev_cur |-> d_prev_cur, d_cur_next |-> d_cur_next,
         d_prev_next |-> d_prev_next, speed_to |-> speed_to,
         speed_from |-> speed_from, speed_flag |-> speed_flag,
         jump_flag |-> jump_flag, spike |-> spike]

\* lines 179-205: the confidence of a flagged interior point
Confidence(sg, V, D) ==
    LET avg_far_m == RDiv(RAdd(sg.d_prev_cur, sg.d_cur_next), RInt(2))
        distance_factor ==
            RMin(RInt(1), RDiv(avg_far_m, RMax(RInt(D * 2), Rat(1, 1000))))
        detour_m == RSub(RAdd(sg.d_prev_cur, sg.d_cur_next), sg.d_prev_next)
        detour_ratio == RDiv(detour_m, RMax(sg.d_prev_next, RInt(50)))
        detour_factor == RMin(RInt(1), RDiv(detour_ratio, RInt(5)))
        max_req_speed == RMax(sg.speed_to, sg.speed_from)
        speed_factor ==
            IF IsFinite(max_req_speed)
            THEN RMin(RInt(1), RMax(RInt(0),
                      RDiv(RSub(max_req_speed, RInt(V)), RMax(RInt(V), RInt(1)))))
            ELSE RInt(0)
        weighted == RAdd(RAdd(RMul(Rat(25, 100), distance_factor),
                              RMul(Rat(35, 100), detour_factor)),
                         RMul(Rat(40, 100), speed_factor))
        c1 == IF sg.jump_flag /\ RLt(Rat(8, 10), detour_factor)
              THEN RMax(weighted, Rat(85, 100)) ELSE weighted
        c2 == IF sg.jump_flag /\ RLt(RInt(V * 2), max_req_speed)
              THEN RMax(c1, Rat(9, 10)) ELSE c1
    IN  c2

\* mutant of Pass2From: the label chosen by jump_flag first
RECURSIVE Pass2FromJumpFirst(_, _, _, _)
Pass2FromJumpFirst(ps, i, V, D) ==
    IF i > Len(ps) - 1 THEN <<>>
    ELSE LET sg == Signals(ps, i, V, D)
         IN  (IF ~(sg.speed_flag \/ sg.jump_flag) THEN <<>>
              ELSE <<add_outlier(ps[i], ps[i - 1], ps[i + 1],
                                 IF sg.jump_flag THEN "jump_outlier"
                                                 ELSE "speed_outlier",
                                 [speed_flag |-> sg.speed_flag,
                                  jump_flag |-> sg.jump_flag],
                                 Confidence(sg, V, D))>>)
             \o Pass2FromJumpFirst(ps, i + 1, V, D)

\* lines 131-235, from index i (the code's range(1, len - 1) is 2..Len-1)
RECURSIVE Pass2From(_, _, _, _)
Pass2From(ps, i, V, D) ==
    IF i > Len(ps) - 1 THEN <<>>
    ELSE LET sg == Signals(ps, i, V, D)
         IN  (IF ~(sg.speed_flag \/ sg.jump_flag) THEN <<>>
              ELSE <<add_outlier(ps[i], ps[i - 1], ps[i + 1],
                                 IF sg.speed_flag THEN "speed_outlier"
                                                  ELSE "jump_outlier",
                                 [speed_flag |-> sg.speed_flag,
                                  jump_flag |-> sg.jump_flag],
                                 Confidence(sg, V, D))>>)
             \o Pass2From(ps, i + 1, V, D)

Pass2(ps, V, D) == Pass2From(ps, 2, V, D)

\* line 239: outliers.sort(key=confidence_score, reverse=True) - stable
SortByConfidence(cands) ==
    StableSort(cands, [i, j \in 1..Len(cands) |->
                          RLt(cands[j].confidence_score, cands[i].confidence_score)])

\* mutant of IsNeighborArtifact: only a confidence at most 0.05 away, above or
\* below, makes the candidate an artifact
IsNeighborArtifactWithin(outlier, filtered_outliers) ==
    \E k \in 1..Len(filtered_outliers) :
        LET other == filtered_outliers[k]
        IN  /\ other.point_id \in {outlier.previous_point_id, outlier.next_point_id}
            /\ outlier.detection_reason = other.detection_reason
            /\ RLe(outlier.confidence_score,
                   RAdd(other.confidence_score, Rat(5, 100)))
            /\ RLe(other.confidence_score,
                   RAdd(outlier.confidence_score, Rat(5, 100)))

\* lines 263-272: is `outlier` adjacent to an accepted detection of the same reason
\* whose confidence is not more than 0.05 below its own
IsNeighborArtifact(outlier, filtered_outliers) ==
    \E k \in 1..Len(filtered_outliers) :
        LET other == filtered_outliers[k]
        IN  /\ other.point_id \in {outlier.previous_point_id, outlier.next_point_id}
            /\ outlier.detection_reason = other.detection_reason
            /\ RLe(outlier.confidence_score,
                   RAdd(other.confidence_score, Rat(5, 100)))

\* lines 279-283: the ids an accepted detection marks as neighbour artifacts
MarkedNeighbors(outlier) ==
    IF RLe(Rat(85, 100), outlier.confidence_score)
    THEN {x \in {outlier.previous_point_id, outlier.next_point_id} : Truthy(x)}
    ELSE {}

\* mutant of Pass3From: a rejected candidate marks its neighbours too
RECURSIVE Pass3FromTransitive(_, _, _, _, _)
Pass3FromTransitive(sorted, k, filtered_outliers, outlier_ids, neighbor_of_outlier_ids) ==
    IF k > Len(sorted) THEN filtered_outliers
    ELSE LET outlier == sorted[k]
             skip == \/ outlier.point_id \in outlier_ids
                     \/ outlier.point_id \in neighbor_of_outlier_ids
                     \/ IsNeighborArtifact(outlier, filtered_outliers)
         IN  IF skip
             THEN Pass3FromTransitive(sorted, k + 1, filtered_outliers, outlier_ids,
                                      neighbor_of_outlier_ids
                                          \cup MarkedNeighbors(outlier))
             ELSE Pass3FromTransitive(sorted, k + 1,
                                      Append(filtered_outliers, outlier),
                                      outlier_ids \cup {outlier.point_id},
                                      neighbor_of_outlier_ids
                                          \cup MarkedNeighbors(outlier))

\* mutant of Pass3From: the `point_id in outlier_ids` test left out
RECURSIVE Pass3FromNoIdCheck(_, _, _, _, _)
Pass3FromNoIdCheck(sorted, k, filtered_outliers, outlier_ids, neighbor_of_outlier_ids) ==
    IF k > Len(sorted) THEN filtered_outliers
    ELSE LET outlier == sorted[k]
             skip == \/ outlier.point_id \in neighbor_of_outlier_ids
                     \/ IsNeighborArtifact(outlier, filtered_outliers)
         IN  IF skip
             THEN Pass3FromNoIdCheck(sorted, k + 1, filtered_outliers, outlier_ids,
                                     neighbor_of_outlier_ids)
             ELSE Pass3FromNoIdCheck(sorted, k + 1,
                                     Append(filtered_outliers, outlier),
                                     outlier_ids \cup {outlier.point_id},
                                     neighbor_of_outlier_ids
                                         \cup MarkedNeighbors(outlier))

\* lines 245-283: the loop over the sorted candidates, from index k
RECURSIVE Pass3From(_, _, _, _, _)
Pass3From(sorted, k, filtered_outliers, outlier_ids, neighbor_of_outlier_ids) ==
    IF k > Len(sorted) THEN filtered_outliers
    ELSE LET outlier == sorted[k]
             skip == \/ outlier.point_id \in outlier_ids
                     \/ outlier.point_id \in neighbor_of_outlier_ids
                     \/ IsNeighborArtifact(outlier, filtered_outliers)
         IN  IF skip
             THEN Pass3From(sorted, k + 1, filtered_outliers, outlier_ids,
                            neighbor_of_outlier_ids)
             ELSE Pass3From(sorted, k + 1, Append(filtered_outliers, outlier),
                            outlier_ids \cup {outlier.point_id},
                            neighbor_of_outlier_ids \cup MarkedNeighbors(outlier))

\* mutant of Pass3: the walk starts at the second candidate
Pass3FromSecond(cands) == Pass3From(SortByConfidence(cands), 2, <<>>, {}, {})

Pass3(cands) == Pass3From(SortByConfidence(cands), 1, <<>>, {}, {})

\* mutant of SortByPointId: the final sort left out
SortByPointIdOmitted(filtered_outliers) == filtered_outliers

\* line 286: filtered_outliers.sort(key=point_id)
SortByPointId(filtered_outliers) ==
    StableSort(filtered_outliers, [i, j \in 1..Len(filtered_outliers) |->
                                      filtered_outliers[i].point_id
                                          < filtered_outliers[j].point_id])

\* mutant of TooSmall: the size check off by one
TooSmallOffByOne(batch) == Len(batch) < 2

\* lines 60-61: the size check
TooSmall(batch) == Len(batch) < 3

\* lines 63-81
SortedPoints(batch) == SortByTimestamp([i \in 1..Len(batch) |-> Normalize(batch[i])])

\* lines 93-235: the candidates in the order the two passes append them
Candidates(ps, V, D) == Pass1(ps) \o Pass2(ps, V, D)

\* the whole function
DetectOutliers(batch, V, D) ==
    IF TooSmall(batch) THEN <<>>
    ELSE SortByPointId(Pass3(Candidates(SortedPoints(batch), V, D)))

-----------------------------------------------------------------------------
(* The callers' inputs and the call *)

Point(id, lat, ts) == [id |-> id, latitude |-> lat, longitude |-> 0, timestamp |-> ts]

\* batches of 0..MaxBatch points in any time order, duplicates included
FreeBatches(first, unit) ==
    UNION {{[j \in 1..n |-> Point(first + j - 1, pos[j], unit * ts[j])] :
                pos \in [1..n -> PosSet], ts \in [1..n -> 0..MaxTs]} :
           n \in 0..MaxBatch}

RECURSIVE SumTo(_, _)
SumTo(gap, j) == IF j = 0 THEN 0 ELSE gap[j] + SumTo(gap, j - 1)

\* tracks of TrackLen fixes submitted in time order, 1..MaxGap seconds apart
Tracks(first, unit) ==
    {[j \in 1..TrackLen |-> Point(first + j - 1, pos[j], unit * SumTo(gap, j - 1))] :
        pos \in [1..TrackLen -> PosSet], gap \in [1..(TrackLen - 1) -> 1..MaxGap]}

\* no scan in any state, empty tables, the scheduler not started
NoCall == [point |-> NoPoint, is_new |-> FALSE]
NoSched == [pc |-> "stopped"]
NoManual == [pc |-> "idle"]
NoReview == [action |-> "none", db_ids |-> {}]

AppIdle ==
    /\ flagged_points = {}
    /\ scan_history = {}
    /\ now = 0
    /\ sched = NoSched
    /\ save_call = NoCall
    /\ manual = NoManual
    /\ review_call = NoReview

\* a caller passes a free-form batch given in seconds
Init ==
    /\ ts_unit = 1
    /\ \E first \in 0..MaxFirstId : points \in FreeBatches(first, ts_unit)
    /\ max_speed_ms \in SpeedSet
    /\ max_distance_m \in DistanceSet
    /\ pc = "call"
    /\ pts = <<>>
    /\ outliers = <<>>
    /\ result = <<>>
    /\ AppIdle

\* a caller passes a recorded track, given in seconds or in milliseconds
InitTrack ==
    /\ ts_unit \in UnitSet
    /\ \E first \in 0..MaxFirstId : points \in Tracks(first, ts_unit)
    /\ max_speed_ms \in SpeedSet
    /\ max_distance_m \in DistanceSet
    /\ pc = "call"
    /\ pts = <<>>
    /\ outliers = <<>>
    /\ result = <<>>
    /\ AppIdle

\* detect_outliers on a batch of fewer than 3 points (lines 60-61)
ReturnEmpty ==
    /\ pc = "call"
    /\ TooSmall(points)
    /\ result' = <<>>
    /\ pc' = "done"
    /\ UNCHANGED <<points, max_speed_ms, max_distance_m, ts_unit, pts, outliers>>
    /\ UNCHANGED appvars

\* detect_outliers on a batch of at least 3 points (lines 63-288)
Detect ==
    /\ pc = "call"
    /\ ~TooSmall(points)
    /\ CanNormalize(points)
    /\ LET ps == SortedPoints(points)
           cands == Candidates(ps, max_speed_ms, max_distance_m)
       IN  /\ pts' = ps
           /\ outliers' = cands
           /\ result' = SortByPointId(Pass3(cands))
    /\ pc' = "done"
    /\ UNCHANGED <<points, max_speed_ms, max_distance_m, ts_unit>>
    /\ UNCHANGED appvars

\* detect_outliers on a batch of at least 3 points one of which has a field that
\* cannot be converted: the exception of lines 66-69 leaves the function
Raise ==
    /\ pc = "call"
    /\ ~TooSmall(points)
    /\ ~CanNormalize(points)
    /\ pc' = "raised"
    /\ UNCHANGED <<points, max_speed_ms, max_distance_m, ts_unit, pts, outliers, result>>
    /\ UNCHANGED appvars

Next == ReturnEmpty \/ Detect

Spec == Init /\ [][Next]_vars

\* the same call on recorded tracks, which always have at least 3 points
SpecTrack == InitTrack /\ [][Detect]_vars

\* the batch with field `field` of its j-th point replaced (j = 0: no point)
Damaged(batch, j, field) ==
    [i \in 1..Len(batch) |->
        IF i # j THEN batch[i]
        ELSE [f \in DOMAIN batch[i] |-> IF f = field THEN NotNumeric ELSE batch[i][f]]]

\* batches of 0..MaxDamaged points of which at most one has a damaged field
DamagedBatches ==
    UNION {{Damaged([j \in 1..n |-> Point(j, pos[j], ts[j])], d, field) :
                pos \in [1..n -> {0, PosStep}], ts \in [1..n -> 0..1],
                d \in 0..n, field \in {"id", "latitude", "longitude", "timestamp"}} :
           n \in 0..MaxDamaged}

\* a caller passes a batch that may hold a damaged point
InitDamaged ==
    /\ ts_unit = 1
    /\ points \in DamagedBatches
    /\ max_speed_ms \in SpeedSet
    /\ max_distance_m \in DistanceSet
    /\ pc = "call"
    /\ pts = <<>>
    /\ outliers = <<>>
    /\ result = <<>>
    /\ AppIdle

NextDamaged == ReturnEmpty \/ Detect \/ Raise

SpecDamaged == InitDamaged /\ [][NextDamaged]_vars

-----------------------------------------------------------------------------
(* database.py: table flagged_points *)

\* the detector is not being called
DetectorIdle ==
    /\ points = <<>>
    /\ max_speed_ms = 50
    /\ max_distance_m = 50
    /\ ts_unit = 1
    /\ pc = "idle"
    /\ pts = <<>>
    /\ outliers = <<>>
    /\ result = <<>>

\* autoincrement primary key: one more than the largest id of the table
NextId(table) ==
    IF table = {} THEN 1
    ELSE (CHOOSE m \in {r.id : r \in table} : \A r \in table : r.id <= m) + 1

\* mutant of KeyTaken: the unique index taken to be on point_id alone
KeyTakenByPointId(table, point) ==
    \E r \in table : r.point_id = point.point_id

\* models.py line 33: the unique index idx_point_detection rejects the insert
KeyTaken(table, point) ==
    \E r \in table : /\ r.point_id = point.point_id
                     /\ r.detection_reason = point.detection_reason

\* lines 139-149: the row built from the record; status and flagged_at by default
FlaggedRow(table, point, t) ==
    [id |-> NextId(table),
     point_id |-> point.point_id,
     latitude |-> point.latitude,
     longitude |-> point.longitude,
     timestamp |-> point.timestamp,
     detection_reason |-> point.detection_reason,
     detection_details |-> point.detection_details,
     confidence_score |-> point.confidence_score,
     status |-> "pending",
     previous_point_id |-> point.previous_point_id,
     next_point_id |-> point.next_point_id,
     flagged_at |-> t,
     reviewed_at |-> None]

\* lines 135-155: <<table after the call, return value>>
save_flagged_point(table, point, t) ==
    IF KeyTaken(table, point)
    THEN <<table, FALSE>>                                   \* IntegrityError, rollback
    ELSE <<table \cup {FlaggedRow(table, point, t)}, TRUE>>  \* commit

\* records as detect_outliers returns them, about points 1..MaxPointId
SavedRecords ==
    {[point_id |-> id, latitude |-> 0, longitude |-> 0, timestamp |-> id,
      detection_reason |-> reason, detection_details |-> <<>>,
      confidence_score |-> c, previous_point_id |-> id - 1,
      next_point_id |-> id + 1] :
        id \in 1..MaxPointId, reason \in {"speed_outlier", "non_increasing_timestamp"},
        c \in {Rat(9, 10), Rat(1, 2)}}

InitSave ==
    /\ DetectorIdle
    /\ AppIdle

\* a scan saves one of the records it detected
SaveFlaggedPoint ==
    \E point \in SavedRecords :
        LET saved == save_flagged_point(flagged_points, point, now)
        IN  /\ flagged_points' = saved[1]
            /\ save_call' = [point |-> point, is_new |-> saved[2]]
            /\ UNCHANGED <<scan_history, now, sched, manual, review_call>>
            /\ UNCHANGED detvars

SpecSave == InitSave /\ [][SaveFlaggedPoint]_vars

-----------------------------------------------------------------------------
(* database.py: table scan_history; scheduler.py: AutoScanScheduler.         *)
(* Dates "YYYY-MM-DD" are day numbers: the date of epoch second t is         *)
(* t \div DayLen, and strptime of a date is the first second of that day.    *)

DayLen == 86400          \* seconds per calendar day
StuckAfter == 1800       \* _run_scan: a running scan older than this is stuck
OverlapSec == 300        \* _run_scan: timedelta(minutes=5)
MinRangeSec == 120       \* _run_scan: smallest window worth scanning
SleepSec == 600          \* _run_loop: asyncio.sleep(600)
FirstLookback == 24 * 3600   \* _run_scan: timedelta(hours=24)

TickSec == 300           \* the clock advances in steps of TickSec seconds
MaxTicks == 5            \* and the model follows it for MaxTicks steps

FirstNow == DayLen + TickSec           \* the clock when the process starts
Horizon == FirstNow + MaxTicks * TickSec

Date(t) == t \div DayLen               \* strftime("%Y-%m-%d")
Midnight(date) == date * DayLen        \* strptime(date, "%Y-%m-%d")

NoScan == [id |-> None]

\* lines 203-216: the row create_scan_history inserts
ScanRow(table, start_date, end_date, scan_type, t) ==
    [id |-> NextId(table), start_date |-> start_date, end_date |-> end_date,
     started_at |-> t, completed_at |-> None, status |-> "running",
     points_scanned |-> 0, points_flagged |-> 0, error_message |-> "",
     scan_type |-> scan_type]

\* lines 218-240
update_scan_history(table, scan_id, status, points_scanned, points_flagged, error_message, t) ==
    {IF r.id = scan_id
     THEN [r EXCEPT !.status = status, !.completed_at = t,
                    !.points_scanned = points_scanned,
                    !.points_flagged = points_flagged,
                    !.error_message = error_message]
     ELSE r : r \in table}

\* lines 242-258: ORDER BY started_at DESC LIMIT 1 (any of the latest on a tie)
get_last_scan(table) ==
    IF table = {} THEN {NoScan}
    ELSE {r \in table : \A r2 \in table : r2.started_at <= r.started_at}

\* lines 260-282: the completed scan with the latest completed_at
get_last_completed_scan(table) ==
    LET completed == {r \in table : r.status = "completed"}
    IN  IF completed = {} THEN {NoScan}
        ELSE {r \in completed : \A r2 \in completed : r2.completed_at <= r.completed_at}

\* mutant of InProgressVerdict: a running scan makes _run_scan skip whatever its age
InProgressVerdictNoTimeout(last_scan, t) ==
    IF last_scan # NoScan /\ last_scan.status = "running" /\ Truthy(last_scan.started_at)
    THEN "skip"
    ELSE "go"

\* mutant of InProgressVerdict: `>=` for `>` in the age test
InProgressVerdictAtLeast(last_scan, t) ==
    IF last_scan # NoScan /\ last_scan.status = "running" /\ Truthy(last_scan.started_at)
    THEN (IF t - last_scan.started_at >= StuckAfter THEN "stuck" ELSE "skip")
    ELSE "go"

\* lines 62-79: what _run_scan does about the most recent scan
InProgressVerdict(last_scan, t) ==
    IF last_scan # NoScan /\ last_scan.status = "running" /\ Truthy(last_scan.started_at)
    THEN (IF t - last_scan.started_at > StuckAfter THEN "stuck" ELSE "skip")
    ELSE "go"

\* lines 84-95: the first second of the window to scan
WindowStart(last_completed, t) ==
    IF last_completed # NoScan
    THEN Midnight(last_completed.end_date) - OverlapSec
    ELSE t - FirstLookback

\* what dawarich.fetch_points may return for a window: nothing, two fixes, a
\* track with a spike 1200 m away, or a track with a repeated timestamp
FetchedBatches ==
    {<<>>,
     <<Point(1, 0, 0), Point(2, PosStep, 5)>>,
     <<Point(1, 0, 0), Point(2, 30 * PosStep, 1), Point(3, 0, 2)>>,
     <<Point(1, 0, 0), Point(2, 0, 0), Point(3, PosStep, 5)>>}

\* the scheduler between two steps of _run_loop / _run_scan
Sched(at) ==
    [pc |-> at, stuck_id |-> None, start_date |-> None, end_date |-> None,
     scan_id |-> None, points |-> <<>>, queue |-> <<>>, new_count |-> 0,
     wake |-> 0]

\* scan_history as an earlier run of the application may have left it: empty, or
\* one scan that completed, failed, or was still running when the process died
EarlierScans(t) ==
    {{}} \cup
    {{[ScanRow({}, Date(t - age), Date(t - age), scan_type, t - age)
          EXCEPT !.status = status,
                 !.completed_at = IF status = "running" THEN None ELSE t - age]} :
        age \in {0, StuckAfter, StuckAfter + TickSec},
        status \in {"running", "completed", "failed"},
        scan_type \in {"manual", "auto"}}

InitSched ==
    /\ DetectorIdle
    /\ flagged_points = {}
    /\ now = FirstNow
    /\ scan_history \in EarlierScans(now)
    /\ sched = NoSched
    /\ save_call = NoCall
    /\ manual = NoManual
    /\ review_call = NoReview

\* lines 25-33: start() creates the task that runs _run_loop
Start ==
    /\ sched.pc = "stopped"
    /\ sched' = Sched("run")
    /\ UNCHANGED <<flagged_points, scan_history, now, save_call, manual, review_call>>
    /\ UNCHANGED detvars

\* lines 61-79: _run_scan reads the most recent scan and decides
CheckInProgress ==
    /\ sched.pc = "run"
    /\ \E last_scan \in get_last_scan(scan_history) :
           LET verdict == InProgressVerdict(last_scan, now)
           IN  sched' = IF verdict = "stuck"
                        THEN [Sched("mark_stuck") EXCEPT !.stuck_id = last_scan.id]
                        ELSE IF verdict = "skip"
                        THEN [Sched("sleep") EXCEPT !.wake = now + SleepSec]
                        ELSE Sched("plan")
    /\ UNCHANGED <<flagged_points, scan_history, now, save_call, manual, review_call>>
    /\ UNCHANGED detvars

\* lines 72-76: the stuck scan is marked failed
MarkStuck ==
    /\ sched.pc = "mark_stuck"
    /\ scan_history' = update_scan_history(scan_history, sched.stuck_id, "failed", 0, 0,
                                           "Scan timed out (exceeded 30 minutes)", now)
    /\ sched' = Sched("plan")
    /\ UNCHANGED <<flagged_points, now, save_call, manual, review_call>>
    /\ UNCHANGED detvars

\* lines 82-104: the window from the last completed scan to now
PlanWindow ==
    /\ sched.pc = "plan"
    /\ \E last_completed \in get_last_completed_scan(scan_history) :
           LET start_date == WindowStart(last_completed, now)
               end_date == now
           IN  sched' = IF end_date - start_date < MinRangeSec
                        THEN [Sched("sleep") EXCEPT !.wake = now + SleepSec]
                        ELSE [Sched("create") EXCEPT !.start_date = Date(start_date),
                                                     !.end_date = Date(end_date)]
    /\ UNCHANGED <<flagged_points, scan_history, now, save_call, manual, review_call>>
    /\ UNCHANGED detvars

\* lines 109-113
CreateScan ==
    /\ sched.pc = "create"
    /\ LET row == ScanRow(scan_history, sched.start_date, sched.end_date, "auto", now)
       IN  /\ scan_history' = scan_history \cup {row}
           /\ sched' = [sched EXCEPT !.pc = "fetch", !.scan_id = row.id]
    /\ UNCHANGED <<flagged_points, now, save_call, manual, review_call>>
    /\ UNCHANGED detvars

\* lines 117-134: fetch_points raises, or returns a batch that is analysed
FetchPointsFrom(batches) ==
    /\ sched.pc = "fetch"
    /\ \/ sched' = [sched EXCEPT !.pc = "fail"]
       \/ \E batch \in batches :
              LET found == IF batch = <<>> THEN <<>>
                           ELSE DetectOutliers(batch, 30, 500)
              IN  sched' = [sched EXCEPT !.pc = IF found = <<>> THEN "complete"
                                                ELSE "save",
                                         !.points = batch,
                                         !.queue = found]
    /\ UNCHANGED <<flagged_points, scan_history, now, save_call, manual, review_call>>
    /\ UNCHANGED detvars

FetchPoints == FetchPointsFrom(FetchedBatches)

\* lines 138-141: one turn of the loop that saves the detections
SaveOutlier ==
    /\ sched.pc = "save"
    /\ LET outlier == Head(sched.queue)
           saved == save_flagged_point(flagged_points, outlier, now)
       IN  /\ flagged_points' = saved[1]
           /\ save_call' = [point |-> outlier, is_new |-> saved[2]]
           /\ sched' = [sched EXCEPT
                  !.queue = Tail(sched.queue),
                  !.new_count = IF saved[2] THEN sched.new_count + 1
                                ELSE sched.new_count,
                  !.pc = IF Len(sched.queue) = 1 THEN "complete" ELSE "save"]
    /\ UNCHANGED <<scan_history, now, manual, review_call>>
    /\ UNCHANGED detvars

\* lines 124-127 and 144-149: the scan is recorded as completed; _run_loop sleeps
CompleteScan ==
    /\ sched.pc = "complete"
    /\ scan_history' = update_scan_history(scan_history, sched.scan_id, "completed",
                                           Len(sched.points), sched.new_count, "", now)
    /\ sched' = [Sched("sleep") EXCEPT !.wake = now + SleepSec]
    /\ UNCHANGED <<flagged_points, now, save_call, manual, review_call>>
    /\ UNCHANGED detvars

\* lines 155-158 and 49-50: the scan is recorded as failed, the exception is logged
FailScan ==
    /\ sched.pc = "fail"
    /\ scan_history' = update_scan_history(scan_history, sched.scan_id, "failed", 0, 0,
                                           "error", now)
    /\ sched' = [Sched("sleep") EXCEPT !.wake = now + SleepSec]
    /\ UNCHANGED <<flagged_points, now, save_call, manual, review_call>>
    /\ UNCHANGED detvars

\* lines 52-56: the sleep of 10 minutes is over
Wake ==
    /\ sched.pc = "sleep"
    /\ now >= sched.wake
    /\ sched' = Sched("run")
    /\ UNCHANGED <<flagged_points, scan_history, now, save_call, manual, review_call>>
    /\ UNCHANGED detvars

\* time passes
Tick ==
    /\ now < Horizon
    /\ now' = now + TickSec
    /\ UNCHANGED <<flagged_points, scan_history, sched, save_call, manual, review_call>>
    /\ UNCHANGED detvars

NextSched ==
    \/ Start \/ CheckInProgress \/ MarkStuck \/ PlanWindow \/ CreateScan
    \/ FetchPoints \/ SaveOutlier \/ CompleteScan \/ FailScan \/ Wake \/ Tick

SpecSched == InitSched /\ [][NextSched]_vars

-----------------------------------------------------------------------------
(* Vocabulary of the properties *)

Done == pc = "done"
NIT == "non_increasing_timestamp"
Zero == RInt(0)
One == RInt(1)
Strong == Rat(85, 100)

UniqueIds(batch) ==
    \A i, j \in 1..Len(batch) : batch[i].id = batch[j].id => i = j

\* the records of `recs` about point id
RecordsOf(recs, id) == {k \in 1..Len(recs) : recs[k].point_id = id}

\* position of the point with this id in the sorted list
IndexOf(ps, id) == CHOOSE i \in 1..Len(ps) : ps[i].id = id

-----------------------------------------------------------------------------
(* C1: every returned record has 0 <= confidence_score <= 1, whichever pass *)
(* produced it and whichever boost was applied.                             *)
C1_ConfidenceInUnitInterval ==
    Done => \A k \in 1..Len(result) :
                /\ RLe(Zero, result[k].confidence_score)
                /\ RLe(result[k].confidence_score, One)

\* a result with a Pass 1 record and a Pass 2 record that a boost lifted above
\* its weighted score
C1_Witness ==
    /\ Done
    /\ \E i, j \in 1..Len(result) :
           /\ result[i].detection_reason = NIT
           /\ result[j].detection_reason # NIT
           /\ RLe(Strong, result[j].confidence_score)

(* C2: a batch of 0, 1 or 2 points yields the empty list, whatever the      *)
(* thresholds and the points are.                                           *)
C2_SmallBatchEmpty ==
    (Done /\ Len(points) < 3) => result = <<>>

\* two far-apart points with the same timestamp were passed, and nothing came back
C2_Witness ==
    /\ Done
    /\ Len(points) = 2
    /\ points[1].timestamp = points[2].timestamp
    /\ points[1].latitude # points[2].latitude
    /\ result = <<>>

(* C3: the returned list is sorted by point_id ascending, whatever the      *)
(* confidence order and the timestamp order of the flagged points are.      *)
C3_SortedByPointId ==
    Done => \A i, j \in 1..Len(result) :
                i < j => result[i].point_id <= result[j].point_id

\* a result whose id order is neither the confidence order nor the time order
C3_Witness ==
    /\ Done
    /\ \E i, j \in 1..Len(result) :
           /\ i < j
           /\ RLt(result[i].confidence_score, result[j].confidence_score)
    /\ \E i, j \in 1..Len(result) :
           /\ i < j
           /\ result[i].timestamp > result[j].timestamp

(* C4: for a batch with unique ids the output has at most one record per    *)
(* point_id, also when the point is a candidate of Pass 1 and of Pass 2.    *)
C4_OneRecordPerPoint ==
    (Done /\ UniqueIds(points)) =>
        \A i, j \in 1..Len(result) :
            result[i].point_id = result[j].point_id => i = j

\* a flagged point that both passes had proposed
C4_Witness ==
    /\ Done
    /\ UniqueIds(points)
    /\ \E k \in 1..Len(result) :
           \E a, b \in RecordsOf(outliers, result[k].point_id) :
               /\ outliers[a].detection_reason = NIT
               /\ outliers[b].detection_reason # NIT

(* C5: for a batch of at least 3 points, whenever two points adjacent in     *)
(* sorted order have cur.timestamp <= prev.timestamp, the output contains a *)
(* record for cur with reason non_increasing_timestamp and confidence 0.9.  *)
NonIncreasingAt(ps, i) == ps[i].timestamp <= ps[i - 1].timestamp

\* recs holds the Pass 1 record of the point id
HasPass1Record(recs, id) ==
    \E k \in 1..Len(recs) :
        /\ recs[k].point_id = id
        /\ recs[k].detection_reason = NIT
        /\ recs[k].confidence_score = Rat(9, 10)

C5_NonIncreasingAlwaysReturned ==
    (Done /\ Len(points) >= 3) =>
        \A i \in 2..Len(pts) :
            NonIncreasingAt(pts, i) => HasPass1Record(result, pts[i].id)

(* C5, amended: Pass 1 proposes that record for cur, and the output holds   *)
(* it unless Pass 3 dropped it as a neighbour artifact: an accepted record  *)
(* of confidence >= 0.85 names cur as its previous or next point, or an     *)
(* accepted non_increasing_timestamp record is about a point next to cur.   *)
C5_ReturnedUnlessSuppressed ==
    (Done /\ Len(points) >= 3) =>
        \A i \in 2..Len(pts) :
            NonIncreasingAt(pts, i) =>
                /\ HasPass1Record(outliers, pts[i].id)
                /\ \/ HasPass1Record(result, pts[i].id)
                   \/ \E k \in 1..Len(result) :
                          /\ RLe(Strong, result[k].confidence_score)
                          /\ pts[i].id \in {result[k].previous_point_id,
                                            result[k].next_point_id}
                   \/ \E k \in 1..Len(result) :
                          /\ result[k].detection_reason = NIT
                          /\ result[k].point_id \in
                                 {pts[i - 1].id} \cup
                                 (IF i < Len(pts) THEN {pts[i + 1].id} ELSE {})

\* one non-increasing pair whose later point is returned and another whose later
\* point Pass 3 dropped
C5_Witness ==
    /\ Done
    /\ UniqueIds(points)
    /\ \E i, j \in 2..Len(pts) :
           /\ NonIncreasingAt(pts, i)
           /\ HasPass1Record(result, pts[i].id)
           /\ NonIncreasingAt(pts, j)
           /\ RecordsOf(result, pts[j].id) = {}

(* C6: in a track with strictly increasing timestamps and exactly one       *)
(* jump-and-return spike whose two temporal neighbours are Pass 2           *)
(* candidates because of the spike (without it nothing is proposed), the    *)
(* output holds exactly one record among the spike and its two neighbours.  *)
StrictlyIncreasing(ps) ==
    \A i \in 1..(Len(ps) - 1) : ps[i].timestamp < ps[i + 1].timestamp

\* the interior points that show the spike pattern of lines 171-173
Spikes(ps, V, D) == {i \in 2..(Len(ps) - 1) : Signals(ps, i, V, D).spike}

RemoveAt(ps, i) == [j \in 1..(Len(ps) - 1) |-> IF j < i THEN ps[j] ELSE ps[j + 1]]

C6_OneRecordPerSpike ==
    (Done /\ StrictlyIncreasing(pts)) =>
        \A i \in 3..(Len(pts) - 2) :
            (/\ Spikes(pts, max_speed_ms, max_distance_m) = {i}
             /\ \E k \in RecordsOf(outliers, pts[i - 1].id) :
                    outliers[k].detection_reason # NIT
             /\ \E k \in RecordsOf(outliers, pts[i + 1].id) :
                    outliers[k].detection_reason # NIT
             /\ Candidates(RemoveAt(pts, i), max_speed_ms, max_distance_m) = <<>>)
            => Cardinality({k \in 1..Len(result) :
                   result[k].point_id \in
                       {pts[i - 1].id, pts[i].id, pts[i + 1].id}}) = 1

(* C7: for a fixed batch, a setting with max_speed_ms' <= max_speed_ms and  *)
(* max_distance_m' <= max_distance_m never returns fewer records than the   *)
(* looser setting.                                                          *)
C7_StricterNeverFewer ==
    Done => \A V \in SpeedSet, D \in DistanceSet :
                (V <= max_speed_ms /\ D <= max_distance_m) =>
                    Len(DetectOutliers(points, V, D)) >= Len(result)

(* C8: for a batch with unique ids, every permutation of the batch yields   *)
(* the same list of records, also when several points share a timestamp.    *)
Orderings(n) ==
    {f \in [1..n -> 1..n] : \A i, j \in 1..n : f[i] = f[j] => i = j}

Permuted(batch, f) == [i \in 1..Len(batch) |-> batch[f[i]]]

C8_InputOrderIrrelevant ==
    (Done /\ UniqueIds(points)) =>
        \A f \in Orderings(Len(points)) :
            DetectOutliers(Permuted(points, f), max_speed_ms, max_distance_m)
                = result

(* C9: in every returned record previous_point_id is the id of the point    *)
(* just before the flagged point in timestamp-sorted order and              *)
(* next_point_id the id of the point just after it, null only when the      *)
(* flagged point is the last one; sorted order, not submission order.       *)
IsSortedByTimestamp(ps) ==
    \A i \in 1..(Len(ps) - 1) : ps[i].timestamp <= ps[i + 1].timestamp

IsPermutationOf(ps, batch) ==
    /\ Len(ps) = Len(batch)
    /\ \A i \in 1..Len(batch) : \E j \in 1..Len(ps) : ps[j] = Normalize(batch[i])

C9_NeighboursInSortedOrder ==
    (Done /\ UniqueIds(points) /\ Len(points) >= 3) =>
        /\ IsSortedByTimestamp(pts)
        /\ IsPermutationOf(pts, points)
        /\ \A k \in 1..Len(result) :
               LET i == IndexOf(pts, result[k].point_id)
               IN  /\ i > 1
                   /\ result[k].previous_point_id = pts[i - 1].id
                   /\ result[k].next_point_id =
                          IF i < Len(pts) THEN pts[i + 1].id ELSE None

\* a record whose neighbours are not the points submitted next to it, and one
\* about the last point in time
C9_Witness ==
    /\ Done
    /\ UniqueIds(points)
    /\ \E k \in 1..Len(result) :
           LET j == CHOOSE j \in 1..Len(points) : points[j].id = result[k].point_id
           IN  /\ j > 1
               /\ j < Len(points)
               /\ result[k].previous_point_id # points[j - 1].id
               /\ result[k].next_point_id # points[j + 1].id
               /\ result[k].next_point_id # None
    /\ \E k \in 1..Len(result) : result[k].next_point_id = None

(* C10: timestamps whose raw value exceeds 1e11 are divided by 1000 before  *)
(* sorting and before time deltas and speeds are computed, so a batch given *)
(* in milliseconds yields the records, timestamps in seconds included, of   *)
(* the same batch given in seconds.                                         *)
InSeconds(batch) ==
    [i \in 1..Len(batch) |->
        [batch[i] EXCEPT !.timestamp = batch[i].timestamp \div ts_unit]]

C10_MillisecondsNormalized ==
    (Done /\ ts_unit = 1000) =>
        result = DetectOutliers(InSeconds(points), max_speed_ms, max_distance_m)

(* C11: every Pass 2 record carries one reason label chosen by priority:   *)
(* flying_point if the spike pattern holds, otherwise speed_outlier if      *)
(* speed_flag holds, otherwise jump_outlier.                                *)
Metres(a, b) == Abs(b.latitude - a.latitude)

\* the speed from a to b exceeds 1.15 * V (an undefined speed counts as infinite)
TooFast(a, b, V) ==
    LET dt == b.timestamp - a.timestamp
    IN  dt <= 0 \/ 100 * Metres(a, b) > 115 * V * dt

SpeedSignal(ps, i, V) == TooFast(ps[i - 1], ps[i], V) \/ TooFast(ps[i], ps[i + 1], V)

SpikeSignal(ps, i, D) ==
    /\ Metres(ps[i - 1], ps[i]) > D
    /\ Metres(ps[i], ps[i + 1]) > D
    /\ Metres(ps[i - 1], ps[i + 1]) < (IF 2 * D > 10 THEN 2 * D ELSE 10)

\* the Pass 2 records among the candidates
Pass2Records == {k \in 1..Len(outliers) : outliers[k].detection_reason # NIT}

C11_FlyingPointFirst ==
    (Done /\ UniqueIds(points)) =>
        \A k \in Pass2Records :
            LET i == IndexOf(pts, outliers[k].point_id)
            IN  outliers[k].detection_reason =
                    IF SpikeSignal(pts, i, max_distance_m) THEN "flying_point"
                    ELSE IF SpeedSignal(pts, i, max_speed_ms) THEN "speed_outlier"
                    ELSE "jump_outlier"

(* C11, amended: every Pass 2 record carries one reason label:              *)
(* speed_outlier if speed_flag holds, otherwise jump_outlier; the spike     *)
(* pattern is one of the ways jump_flag holds and has no label of its own.  *)
C11_SpeedThenJump ==
    (Done /\ UniqueIds(points)) =>
        \A k \in Pass2Records :
            LET i == IndexOf(pts, outliers[k].point_id)
            IN  /\ i > 1
                /\ i < Len(pts)
                /\ outliers[k].detection_reason =
                       IF SpeedSignal(pts, i, max_speed_ms) THEN "speed_outlier"
                       ELSE "jump_outlier"
                /\ \A j \in Pass2Records :
                       outliers[j].point_id = outliers[k].point_id => j = k

\* a spike that is also too fast, labelled speed_outlier, and a spike within the
\* speed limit, labelled jump_outlier
C11_Witness ==
    /\ Done
    /\ UniqueIds(points)
    /\ \E k, j \in Pass2Records :
           /\ SpikeSignal(pts, IndexOf(pts, outliers[k].point_id), max_distance_m)
           /\ outliers[k].detection_reason = "speed_outlier"
           /\ SpikeSignal(pts, IndexOf(pts, outliers[j].point_id), max_distance_m)
           /\ outliers[j].detection_reason = "jump_outlier"

(* C12: normal movement is never flagged: when the timestamps are strictly *)
(* increasing and every two temporally adjacent points are at most          *)
(* max_distance_m apart and need a speed of at most max_speed_ms, the       *)
(* result is empty.                                                         *)
NormalMovement(ps, V, D) ==
    \A i \in 1..(Len(ps) - 1) :
        /\ ps[i].timestamp < ps[i + 1].timestamp
        /\ Metres(ps[i], ps[i + 1]) <= D
        /\ Metres(ps[i], ps[i + 1]) <= V * (ps[i + 1].timestamp - ps[i].timestamp)

C12_NormalMovementNotFlagged ==
    (Done /\ NormalMovement(pts, max_speed_ms, max_distance_m)) => result = <<>>

\* a track given in seconds that moves at every step, within both limits
C12_Witness ==
    /\ Done
    /\ ts_unit = 1
    /\ NormalMovement(pts, max_speed_ms, max_distance_m)
    /\ \A i \in 1..(Len(pts) - 1) : Metres(pts[i], pts[i + 1]) > 0
    /\ result = <<>>

(* C13: for a batch of 3 points with strictly increasing timestamps whose   *)
(* middle point in time is farther than max_distance_m from both others     *)
(* while these are closer than max(2 * max_distance_m, 10) to each other,   *)
(* the result is not empty and the middle point's id is among the flagged.  *)
C13_ThreePointSpikeFlagged ==
    (/\ Done
     /\ Len(points) = 3
     /\ StrictlyIncreasing(pts)
     /\ SpikeSignal(pts, 2, max_distance_m)) =>
        /\ result # <<>>
        /\ \E k \in 1..Len(result) : result[k].point_id = pts[2].id

\* such a batch, submitted out of time order, whose spike stays within the speed
\* limit
C13_Witness ==
    /\ Done
    /\ Len(points) = 3
    /\ StrictlyIncreasing(pts)
    /\ SpikeSignal(pts, 2, max_distance_m)
    /\ ~SpeedSignal(pts, 2, max_speed_ms)
    /\ points[2].id # pts[2].id
    /\ \E k \in 1..Len(result) : result[k].point_id = pts[2].id

(* C14: for every batch that holds a point with a missing or               *)
(* non-coercible numeric field, the conversion failure reaches the caller   *)
(* and no result is returned, neither a partial nor an empty list.          *)
Returned == pc = "done"
Raised == pc = "raised"

HasDamagedField(batch) ==
    \E i \in 1..Len(batch) : \E f \in DOMAIN batch[i] : batch[i][f] = NotNumeric

C14_DamagedBatchRaises ==
    (pc # "call" /\ HasDamagedField(points)) => (Raised /\ ~Returned)

(* C14, amended: for every batch of at least 3 points that holds such a     *)
(* point the conversion failure reaches the caller and nothing is returned  *)
(* or computed; a batch of fewer than 3 points returns the empty list       *)
(* whatever its points hold, since the size check comes first.              *)
C14_DamagedBatchRaisesFromThree ==
    (pc # "call" /\ HasDamagedField(points)) =>
        IF Len(points) >= 3
        THEN Raised /\ pts = <<>> /\ outliers = <<>> /\ result = <<>>
        ELSE Returned /\ result = <<>>

\* a batch of 3 points whose last point has no usable timestamp, after the first
\* two would have been flagged
C14_Witness ==
    /\ Raised
    /\ Len(points) = 3
    /\ Coercible(points[1])
    /\ Coercible(points[2])
    /\ points[1].timestamp = points[2].timestamp
    /\ points[3].timestamp = NotNumeric

(* C15: after any sequence of save_flagged_point calls the table holds at   *)
(* most one row per (point_id, detection_reason); a call returns True       *)
(* exactly when no row with that key existed before it, and it returns      *)
(* False leaving every existing row unchanged otherwise.                    *)
SameKey(r, point) ==
    r.point_id = point.point_id /\ r.detection_reason = point.detection_reason

OneRowPerKey ==
    \A r1, r2 \in flagged_points :
        (r1.point_id = r2.point_id /\ r1.detection_reason = r2.detection_reason)
            => r1 = r2

\* what a step that is a save_flagged_point call does
SaveStepDedups ==
    LET point == save_call'.point
        existed == \E r \in flagged_points : SameKey(r, point)
    IN  /\ save_call'.is_new <=> ~existed
        /\ existed => flagged_points' = flagged_points
        /\ ~existed =>
               /\ flagged_points \subseteq flagged_points'
               /\ Cardinality(flagged_points' \ flagged_points) = 1
               /\ \A r \in flagged_points' \ flagged_points :
                      /\ SameKey(r, point)
                      /\ r.confidence_score = point.confidence_score
                      /\ r.status = "pending"

C15_SaveDedups ==
    /\ []OneRowPerKey
    /\ [][SaveStepDedups]_<<flagged_points, save_call>>

\* a call that was refused while the table holds the same point under another
\* reason, and the row it collided with keeps its own confidence
C15_Witness ==
    /\ save_call.is_new = FALSE
    /\ save_call.point # NoPoint
    /\ \E r1, r2 \in flagged_points :
           /\ SameKey(r1, save_call.point)
           /\ r1.confidence_score # save_call.point.confidence_score
           /\ r2.point_id = r1.point_id
           /\ r2.detection_reason # r1.detection_reason

(* C16: if the most recent scan_history record is running and started at   *)
(* most 30 minutes ago, _run_scan returns without looking up the last       *)
(* completed scan, without creating a scan_history record, without fetching *)
(* points and without changing any record.                                  *)
LastScanRunning == \A r \in get_last_scan(scan_history) :
                       r # NoScan /\ r.status = "running"

LastScanAge(t) == t - (CHOOSE r \in get_last_scan(scan_history) : TRUE).started_at

\* the step _run_scan takes first
RunScanBegins == sched.pc = "run" /\ sched' # sched

C16_SkipsWhileScanRunning ==
    [][(RunScanBegins /\ LastScanRunning /\ LastScanAge(now) <= StuckAfter) =>
           /\ sched'.pc = "sleep"
           /\ sched'.scan_id = None
           /\ scan_history' = scan_history
           /\ flagged_points' = flagged_points]_vars

\* _run_scan has just returned because of a scan that started exactly 30 minutes ago
C16_Witness ==
    /\ sched.pc = "sleep"
    /\ sched.wake = now + SleepSec
    /\ LastScanRunning
    /\ LastScanAge(now) = StuckAfter
    /\ Cardinality(scan_history) = 1

(* C17: if the most recent scan_history record is running and started more  *)
(* than 30 minutes ago, _run_scan first updates that record to failed with  *)
(* a timed-out error message, then goes on with the normal scan logic       *)
(* instead of skipping.                                                     *)
TimedOutRow(r, old, t) ==
    r = [old EXCEPT !.status = "failed", !.completed_at = t,
                    !.error_message = "Scan timed out (exceeded 30 minutes)"]

C17_MarksStuckScanFailed ==
    /\ [][(RunScanBegins /\ LastScanRunning /\ LastScanAge(now) > StuckAfter) =>
              /\ sched'.pc = "mark_stuck"
              /\ sched'.stuck_id \in {r.id : r \in get_last_scan(scan_history)}
              /\ scan_history' = scan_history
              /\ flagged_points' = flagged_points]_vars
    /\ [][(sched.pc = "mark_stuck" /\ sched' # sched) =>
              /\ sched'.pc = "plan"
              /\ \A old \in scan_history :
                     IF old.id = sched.stuck_id
                     THEN \E r \in scan_history' : TimedOutRow(r, old, now)
                     ELSE old \in scan_history'
              /\ Cardinality(scan_history') = Cardinality(scan_history)
              /\ flagged_points' = flagged_points]_vars

\* the stuck scan is marked failed and the scan that replaced it is running
C17_Witness ==
    /\ sched.pc = "fetch"
    /\ \E r \in scan_history :
           /\ r.status = "failed"
           /\ r.error_message = "Scan timed out (exceeded 30 minutes)"
           /\ r.id # sched.scan_id
    /\ \E r \in scan_history : r.id = sched.scan_id /\ r.status = "running"

(* C18: when a completed scan exists, the next window starts at its          *)
(* completion time minus 5 minutes, not at midnight of its end_date, so the  *)
(* start_date passed to create_scan_history is the calendar date of          *)
(* completed_at - 5 min.                                                     *)
C18_WindowFromCompletionTime ==
    [][(sched.pc = "plan" /\ sched'.pc = "create") =>
           \A last \in get_last_completed_scan(scan_history) :
               last # NoScan =>
                   sched'.start_date = Date(last.completed_at - OverlapSec)]_vars

(* C19: in Pass 2 an interior point of the sorted batch becomes a candidate *)
(* if and only if at least one signal fires: speed_flag (speed_to or         *)
(* speed_from > 1.15 * max_speed_ms), jump_flag (0 < dt <                    *)
(* clamp(max_distance_m / 50, 1, 10) and distance > max_distance_m on either *)
(* side) or the spike pattern; when none fires it gets no Pass 2 record.     *)

\* slow tracks: thresholds and steps for which a step can be longer than
\* max_distance_m inside the jump window without exceeding 1.15 * max_speed_ms
JumpPosSet == {0, 56, 112}
JumpDistanceSet == {5, 55, 100}

JumpTracks(first) ==
    {[j \in 1..TrackLen |-> Point(first + j - 1, pos[j], SumTo(gap, j - 1))] :
        pos \in [1..TrackLen -> JumpPosSet], gap \in [1..(TrackLen - 1) -> 1..MaxGap]}

InitJump ==
    /\ ts_unit = 1
    /\ \E first \in 0..MaxFirstId : points \in JumpTracks(first)
    /\ max_speed_ms \in SpeedSet
    /\ max_distance_m \in JumpDistanceSet
    /\ pc = "call"
    /\ pts = <<>>
    /\ outliers = <<>>
    /\ result = <<>>
    /\ AppIdle

SpecJump == InitJump /\ [][Detect]_vars

\* 50 * clamp(D / 50, 1, 10)
JumpWindowTimes50(D) == IF D < 50 THEN 50 ELSE IF D > 500 THEN 500 ELSE D

BigShortStep(a, b, D) ==
    LET dt == b.timestamp - a.timestamp
    IN  dt > 0 /\ 50 * dt < JumpWindowTimes50(D) /\ Metres(a, b) > D

JumpSignal(ps, i, D) ==
    BigShortStep(ps[i - 1], ps[i], D) \/ BigShortStep(ps[i], ps[i + 1], D)

HasPass2Record(id) == \E k \in Pass2Records : outliers[k].point_id = id

C19_CandidateIffSignal ==
    (Done /\ UniqueIds(points)) =>
        \A i \in 2..(Len(pts) - 1) :
            HasPass2Record(pts[i].id) <=>
                \/ SpeedSignal(pts, i, max_speed_ms)
                \/ JumpSignal(pts, i, max_distance_m)
                \/ SpikeSignal(pts, i, max_distance_m)

\* one interior point is a candidate for the short-window jump alone, another has
\* no signal and no record
C19_Witness ==
    /\ Done
    /\ UniqueIds(points)
    /\ \E i \in 2..(Len(pts) - 1) :
           /\ JumpSignal(pts, i, max_distance_m)
           /\ ~SpeedSignal(pts, i, max_speed_ms)
           /\ ~SpikeSignal(pts, i, max_distance_m)
           /\ HasPass2Record(pts[i].id)
    /\ \E i \in 2..(Len(pts) - 1) :
           /\ ~JumpSignal(pts, i, max_distance_m)
           /\ ~SpeedSignal(pts, i, max_speed_ms)
           /\ ~SpikeSignal(pts, i, max_distance_m)
           /\ ~HasPass2Record(pts[i].id)

(* C20: in Pass 3, rule (c) rejects a candidate adjacent to an accepted      *)
(* detection of the same detection_reason only when its confidence is within *)
(* 0.05 of the accepted one's; a same-reason adjacent candidate more than    *)
(* 0.05 below the accepted one, and not covered by rules (a) or (b), is      *)
(* accepted.                                                                 *)
Accepted == {result[j] : j \in 1..Len(result)}
CandidateSet == {outliers[k] : k \in 1..Len(outliers)}

\* `other` is an accepted detection next to candidate c with the same reason
SameReasonNeighbour(c, other) ==
    /\ other \in Accepted
    /\ other.point_id \in {c.previous_point_id, c.next_point_id}
    /\ other.detection_reason = c.detection_reason

\* 100 * confidence as a pair of integers compared by cross-multiplication
MoreThan5Below(c, other) ==
    LET a == c.confidence_score
        b == other.confidence_score
    IN  100 * a[1] * b[2] + 5 * a[2] * b[2] < 100 * b[1] * a[2]

\* rule (a) cannot apply: no other record of the same point
NotCoveredByA(c) == \A x \in CandidateSet : x.point_id = c.point_id => x = c

\* rule (b) cannot apply: no accepted detection of confidence >= 0.85 names c's point
NotCoveredByB(c) ==
    \A x \in Accepted :
        c.point_id \in {x.previous_point_id, x.next_point_id} =>
            100 * x.confidence_score[1] < 85 * x.confidence_score[2]

FarBelowNeighbour(c) ==
    /\ NotCoveredByA(c)
    /\ NotCoveredByB(c)
    /\ \E other \in Accepted : SameReasonNeighbour(c, other) /\ MoreThan5Below(c, other)

C20_FarBelowAccepted ==
    (Done /\ UniqueIds(points)) =>
        \A c \in CandidateSet : FarBelowNeighbour(c) => c \in Accepted

(* C20, amended: the candidates are walked from the highest confidence down,  *)
(* so rule (c) rejects every candidate adjacent to an accepted detection of   *)
(* the same detection_reason and a higher confidence, however far below it    *)
(* is; the 0.05 margin only matters for the order among equal confidences.    *)
C20_WeakerNeighbourRejected ==
    (Done /\ UniqueIds(points)) =>
        \A c \in CandidateSet :
            (\E other \in Accepted :
                 /\ SameReasonNeighbour(c, other)
                 /\ RLt(c.confidence_score, other.confidence_score))
            => c \notin Accepted

\* a candidate more than 0.05 below its accepted same-reason neighbour, out of
\* reach of rules (a) and (b), is missing from the result
C20_Witness ==
    /\ Done
    /\ UniqueIds(points)
    /\ \E c \in CandidateSet : FarBelowNeighbour(c) /\ c \notin Accepted

(* C21: in Pass 3, whenever a candidate is accepted with confidence >= 0.85, *)
(* each of its non-null previous_point_id and next_point_id is marked as a   *)
(* neighbour artifact, for every integer id, 0 included, so no candidate for *)
(* those points that is examined later is accepted.                          *)
NamedNeighbours(r) == {r.previous_point_id, r.next_point_id} \ {None}

\* c comes after r in the walk: its confidence is lower
ExaminedAfter(c, r) == RLt(c.confidence_score, r.confidence_score)

C21_StrongMarksEveryNeighbour ==
    (Done /\ UniqueIds(points)) =>
        \A r \in Accepted :
            RLe(Strong, r.confidence_score) =>
                \A c \in Accepted :
                    (c.point_id \in NamedNeighbours(r)) => ~ExaminedAfter(c, r)

(* C22: every Pass 2 candidate for which the spike pattern holds (both       *)
(* neighbour distances > max_distance_m and d_prev_next <                    *)
(* max(2 * max_distance_m, 10)) has confidence_score >= 0.85, whatever its   *)
(* weighted sum is.                                                          *)
C22_SpikeAtLeastStrong ==
    (Done /\ UniqueIds(points)) =>
        \A k \in Pass2Records :
            SpikeSignal(pts, IndexOf(pts, outliers[k].point_id), max_distance_m)
                => RLe(Strong, outliers[k].confidence_score)

(* C23: Pass 3 suppression is single-hop: a candidate is rejected only       *)
(* because of detections that were themselves accepted (its point_id already *)
(* accepted, its point_id named as previous/next by an accepted detection of *)
(* confidence >= 0.85, or adjacency to an accepted detection of the same     *)
(* reason); a rejected candidate marks no neighbour and causes no rejection. *)
Rejected == CandidateSet \ Accepted

\* the accepted detection a, examined no later than c, is a ground to reject c
RejectsDirectly(a, c) ==
    /\ ~RLt(a.confidence_score, c.confidence_score)
    /\ \/ a.point_id = c.point_id
       \/ (RLe(Strong, a.confidence_score) /\ c.point_id \in NamedNeighbours(a))
       \/ (a.point_id \in {c.previous_point_id, c.next_point_id}
               /\ a.detection_reason = c.detection_reason)

C23_RejectedOnlyByAccepted ==
    (Done /\ UniqueIds(points)) =>
        \A c \in Rejected : \E a \in Accepted : RejectsDirectly(a, c)

\* position of a candidate in append order
CandidateIndex(c) == CHOOSE k \in 1..Len(outliers) : outliers[k] = c

\* c comes after r in the stable descending sort
WalkedAfter(c, r) ==
    \/ RLt(c.confidence_score, r.confidence_score)
    \/ (c.confidence_score = r.confidence_score /\ CandidateIndex(c) > CandidateIndex(r))

\* a rejected candidate of confidence >= 0.85 names a point whose later
\* candidate is accepted all the same
C23_Witness ==
    /\ Done
    /\ UniqueIds(points)
    /\ \E r \in Rejected :
           /\ RLe(Strong, r.confidence_score)
           /\ \E c \in Accepted :
                  /\ c.point_id \in NamedNeighbours(r) \ {0}
                  /\ WalkedAfter(c, r)

\* batches whose ids are unrelated to the order of submission: Dawarich assigns
\* the ids, the caller the order
IdBatches(unit) ==
    UNION {{[j \in 1..n |-> Point(ids[j], pos[j], unit * ts[j])] :
                ids \in {f \in [1..n -> 0..(MaxBatch - 1)] :
                            \A i, j \in 1..n : f[i] = f[j] => i = j},
                pos \in [1..n -> {0, PosStep}],
                ts \in [1..n -> 0..MaxTs]} :
           n \in 3..MaxBatch}

InitIds ==
    /\ ts_unit = 1
    /\ points \in IdBatches(ts_unit)
    /\ max_speed_ms \in SpeedSet
    /\ max_distance_m \in DistanceSet
    /\ pc = "call"
    /\ pts = <<>>
    /\ outliers = <<>>
    /\ result = <<>>
    /\ AppIdle

SpecIds == InitIds /\ [][Detect]_vars

(* C24: when a point has both a Pass 1 candidate (non_increasing_timestamp,  *)
(* confidence 0.9) and a Pass 2 candidate, the Pass 2 candidate's confidence *)
(* is never above 0.9 and the stable descending sort examines the Pass 1     *)
(* record first, so the output never contains that point with reason         *)
(* speed_outlier or jump_outlier: if flagged, its reason is                  *)
(* non_increasing_timestamp.                                                 *)
Pass1Candidates == {c \in CandidateSet : c.detection_reason = NIT}
Pass2Candidates == {c \in CandidateSet : c.detection_reason # NIT}

DoublyFlagged == {c.point_id : c \in Pass1Candidates} \cap {c.point_id : c \in Pass2Candidates}

C24_Pass1RecordWins ==
    (Done /\ UniqueIds(points)) =>
        /\ \A c \in Pass2Candidates :
               c.point_id \in DoublyFlagged => RLe(c.confidence_score, Rat(9, 10))
        /\ \A r \in Accepted :
               r.point_id \in DoublyFlagged => r.detection_reason = NIT

(* C25: Pass 3 never empties a non-empty candidate set: the first candidate  *)
(* in confidence-descending stable order is always accepted, so the output   *)
(* is empty if and only if Pass 1 and Pass 2 produced no candidate, and      *)
(* every output record is one of the candidates, unchanged.                  *)
C25_Pass3KeepsFirst ==
    Done =>
        /\ (result = <<>>) <=> (outliers = <<>>)
        /\ outliers # <<>> => SortByConfidence(outliers)[1] \in Accepted
        /\ Accepted \subseteq CandidateSet

\* Pass 3 has dropped all candidates but the first
C25_Witness ==
    /\ Done
    /\ Len(outliers) >= 3
    /\ Len(result) = 1
    /\ result[1] = SortByConfidence(outliers)[1]

(* C26: the first point in timestamp-sorted order is never flagged, so every *)
(* output record has a non-null previous_point_id; the last point in sorted  *)
(* order can be flagged only with reason non_increasing_timestamp, and only  *)
(* such a record can have a null next_point_id.                              *)
FirstSorted == pts[1]
LastSorted == pts[Len(pts)]

C26_EndsOfTheTrack ==
    (Done /\ UniqueIds(points)) =>
        \A r \in Accepted :
            /\ r.point_id # FirstSorted.id
            /\ r.previous_point_id # None
            /\ r.point_id = LastSorted.id => r.detection_reason = NIT
            /\ r.next_point_id = None =>
                   (r.point_id = LastSorted.id /\ r.detection_reason = NIT)

\* the last point of the sorted batch is returned, and an interior point too
C26_Witness ==
    /\ Done
    /\ UniqueIds(points)
    /\ \E r \in Accepted : r.point_id = LastSorted.id /\ r.next_point_id = None
    /\ \E r \in Accepted : r.point_id # LastSorted.id /\ r.detection_reason = NIT

-----------------------------------------------------------------------------
(* routes/scan.py: the manual scan, and the whole application *)

MaxManual == 1     \* manual scans requested while the model runs

\* scan() between two of its awaits; max_speed and jump_radius are the form fields
Manual(at, max_speed, jump_radius) ==
    [pc |-> at, scan_id |-> None, points |-> <<>>, queue |-> <<>>, new_count |-> 0,
     max_speed |-> max_speed, jump_radius |-> jump_radius]

ManualScans == {r \in scan_history : r.scan_type = "manual"}

\* line 51: a valid form was posted; the scan_history record is created
ManualCreate(max_speed, jump_radius, limit) ==
    /\ manual.pc = "idle"
    /\ Cardinality(ManualScans) < limit
    /\ LET row == ScanRow(scan_history, Date(now), Date(now), "manual", now)
       IN  /\ scan_history' = scan_history \cup {row}
           /\ manual' = [Manual("fetch", max_speed, jump_radius) EXCEPT !.scan_id = row.id]
    /\ UNCHANGED <<flagged_points, now, sched, save_call, review_call>>
    /\ UNCHANGED detvars

\* line 54 fails: the exception leaves scan(), FastAPI answers 500
ManualFetchFails ==
    /\ manual.pc = "fetch"
    /\ manual' = NoManual
    /\ UNCHANGED <<flagged_points, scan_history, now, sched, save_call, review_call>>
    /\ UNCHANGED detvars

\* lines 54-76: the points are fetched and analysed
ManualFetch(batches) ==
    /\ manual.pc = "fetch"
    /\ \E batch \in batches :
           LET found == IF batch = <<>> THEN <<>>
                        ELSE DetectOutliers(batch, manual.max_speed, manual.jump_radius)
           IN  manual' = [manual EXCEPT !.pc = IF found = <<>> THEN "complete" ELSE "save",
                                        !.points = batch,
                                        !.queue = found]
    /\ UNCHANGED <<flagged_points, scan_history, now, sched, save_call, review_call>>
    /\ UNCHANGED detvars

\* lines 79-81: one turn of the loop that saves the detections
ManualSave ==
    /\ manual.pc = "save"
    /\ LET outlier == Head(manual.queue)
           saved == save_flagged_point(flagged_points, outlier, now)
       IN  /\ flagged_points' = saved[1]
           /\ save_call' = [point |-> outlier, is_new |-> saved[2]]
           /\ manual' = [manual EXCEPT
                  !.queue = Tail(manual.queue),
                  !.new_count = IF saved[2] THEN manual.new_count + 1
                                ELSE manual.new_count,
                  !.pc = IF Len(manual.queue) = 1 THEN "complete" ELSE "save"]
    /\ UNCHANGED <<scan_history, now, sched, review_call>>
    /\ UNCHANGED detvars

\* lines 57 and 83: the scan is recorded as completed and the page is returned
ManualComplete ==
    /\ manual.pc = "complete"
    /\ scan_history' = update_scan_history(scan_history, manual.scan_id, "completed",
                                           Len(manual.points), manual.new_count, "", now)
    /\ manual' = NoManual
    /\ UNCHANGED <<flagged_points, now, sched, save_call, review_call>>
    /\ UNCHANGED detvars

\* scheduler.py lines 35-42: stop() cancels the task at the await it is suspended
\* in; CancelledError is not an Exception, so neither handler (lines 49, 155) runs
Stop ==
    /\ sched.pc \notin {"stopped", "cancelled"}
    /\ sched' = Sched("cancelled")
    /\ UNCHANGED <<flagged_points, scan_history, now, save_call, manual, review_call>>
    /\ UNCHANGED detvars

\* what Dawarich returns to a manual scan: nothing, or a track with one spike
ManualBatches ==
    {<<>>, <<Point(1, 0, 0), Point(2, 30 * PosStep, 1), Point(3, 0, 2)>>}

MaxSteps == 2      \* the application is followed for MaxSteps steps of the clock
AppStep == 2 * SleepSec

\* time passes, two sleep periods at a time
AppTick ==
    /\ now < FirstNow + MaxSteps * AppStep
    /\ now' = now + AppStep
    /\ UNCHANGED <<flagged_points, scan_history, sched, save_call, manual, review_call>>
    /\ UNCHANGED detvars

\* main.py lines 45-47: the scheduler is started before the first request is served
InitApp ==
    /\ DetectorIdle
    /\ flagged_points = {}
    /\ scan_history = {}
    /\ now = FirstNow
    /\ sched = Sched("run")
    /\ save_call = NoCall
    /\ manual = NoManual
    /\ review_call = NoReview

NextApp ==
    \/ CheckInProgress \/ MarkStuck \/ PlanWindow \/ CreateScan
    \/ FetchPointsFrom(ManualBatches) \/ SaveOutlier \/ CompleteScan \/ FailScan \/ Wake
    \/ AppTick
    \/ Stop
    \/ ManualCreate(30, 500, MaxManual)
    \/ ManualFetchFails
    \/ ManualFetch(ManualBatches)
    \/ ManualSave
    \/ ManualComplete

SpecApp == InitApp /\ [][NextApp]_vars

(* C27: every scan_history record created by _run_scan or by POST /scan has  *)
(* status completed or failed once that operation has ended, whether it      *)
(* returned, raised or was cancelled by stop(); no record is left in status  *)
(* running by a finished operation.                                          *)
Running == {r \in scan_history : r.status = "running"}

\* the operation that created record r has not ended
InFlight(r) ==
    \/ (sched.pc \in {"fetch", "save", "complete", "fail"} /\ sched.scan_id = r.id)
    \/ (manual.pc \in {"fetch", "save", "complete"} /\ manual.scan_id = r.id)

C27_NoRunningRecordLeftBehind == \A r \in Running : InFlight(r)

(* C28: under any interleaving of the auto-scan loop and manual POST /scan   *)
(* requests, at most one scan_history record has status running at any time. *)
C28_AtMostOneRunning == Cardinality(Running) <= 1

-----------------------------------------------------------------------------
(* routes/review.py and the review functions of database.py *)

MaxRescans == 2    \* manual scans requested while the reviewer works
MaxReviews == 2    \* bulk actions posted
MaxRowId == 4      \* the largest database id a form can name

\* database.py lines 157-169 and 182-194: UPDATE ... WHERE point_id IN (point_ids)
mark_as(table, point_ids, status, t) ==
    {IF r.point_id \in point_ids
     THEN [r EXCEPT !.status = status, !.reviewed_at = t]
     ELSE r : r \in table}

mark_as_deleted(table, point_ids, t) == mark_as(table, point_ids, "deleted", t)

\* mutant of mark_as_ignored: the WHERE clause left out
mark_as_ignoredEveryRow(table, point_ids, t) ==
    {[r EXCEPT !.status = "ignored", !.reviewed_at = t] : r \in table}

mark_as_ignored(table, point_ids, t) == mark_as(table, point_ids, "ignored", t)

\* database.py lines 196-201: DELETE ... WHERE point_id IN (point_ids)
remove_flagged_points(table, point_ids) == {r \in table : r.point_id \notin point_ids}

\* review.py lines 66-69: the Dawarich point ids of the selected database ids
dawarich_point_ids(table, db_ids) == {r.point_id : r \in {x \in table : x.id \in db_ids}}

Actions == {"delete", "restore", "ignore", "remove"}

\* review.py lines 78-122: the table after a bulk action whose Dawarich call succeeded
Reviewed(table, action, point_ids, t) ==
    CASE action = "delete"  -> mark_as_deleted(table, point_ids, t)
      [] action = "restore" -> remove_flagged_points(table, point_ids)
      [] action = "ignore"  -> mark_as_ignored(table, point_ids, t)
      [] action = "remove"  -> remove_flagged_points(table, point_ids)

\* POST /action/{action} with the selected rows' database ids; delete and restore
\* call Dawarich first, and when that call raises (lines 124-127) nothing is written
Action(action, db_ids) ==
    /\ review_call.seq < MaxReviews
    /\ dawarich_point_ids(flagged_points, db_ids) # {}
    /\ \E ok \in (IF action \in {"delete", "restore"} THEN BOOLEAN ELSE {TRUE}) :
           /\ flagged_points' =
                  IF ok THEN Reviewed(flagged_points, action,
                                      dawarich_point_ids(flagged_points, db_ids), now)
                  ELSE flagged_points
           /\ review_call' = [action |-> action, db_ids |-> db_ids, ok |-> ok,
                              seq |-> review_call.seq + 1]
    /\ UNCHANGED <<scan_history, now, sched, save_call, manual>>
    /\ UNCHANGED detvars

\* a track whose points 2 and 4 are 40 m off the line, 2 s apart
ReviewTrack == <<Point(1, 0, 0), Point(2, PosStep, 2), Point(3, 0, 4), Point(4, PosStep, 6), Point(5, 0, 8)>>

\* the points Dawarich still has: those not deleted through the review page
Remaining(batch) ==
    SelectSeq(batch, LAMBDA p : ~\E r \in flagged_points :
                                     r.point_id = p.id /\ r.status = "deleted")

ReviewSpeedSet == {10, 30}

InitReview ==
    /\ DetectorIdle
    /\ flagged_points = {}
    /\ scan_history = {}
    /\ now = FirstNow
    /\ sched = NoSched
    /\ save_call = NoCall
    /\ manual = NoManual
    /\ review_call = [action |-> "none", db_ids |-> {}, ok |-> TRUE, seq |-> 0]

NextReview ==
    \/ \E max_speed \in ReviewSpeedSet : ManualCreate(max_speed, 5, MaxRescans)
    \/ ManualFetch({Remaining(ReviewTrack)})
    \/ ManualSave
    \/ ManualComplete
    \/ \E action \in Actions, db_ids \in (SUBSET (1..MaxRowId)) \ {{}} : Action(action, db_ids)

SpecReview == InitReview /\ [][NextReview]_vars

(* C29: re-running a scan over the same points with the same thresholds     *)
(* saves no new flagged point (every save_flagged_point returns False) and   *)
(* leaves the status of every existing flagged_points row unchanged; and a   *)
(* point that a reviewer already marked ignored or deleted never reappears   *)
(* as a pending row through a later scan.                                    *)
ReviewedPoints == {r.point_id : r \in {x \in flagged_points : x.status \in {"ignored", "deleted"}}}

\* a scan has just called save_flagged_point
SaveStep == manual.pc = "save" /\ manual' # manual

\* every record of the scan in flight was in the table when its points were fetched
Rescan == \A k \in 1..Len(manual.queue) : KeyTaken(flagged_points, manual.queue[k])

C29_RescanSavesNothingNew ==
    [][SaveStep =>
           /\ flagged_points \subseteq flagged_points'
           /\ Rescan => (flagged_points' = flagged_points /\ ~save_call'.is_new
                             /\ manual'.new_count = manual.new_count)
           /\ \A n \in flagged_points' \ flagged_points :
                  ~(n.status = "pending" /\ n.point_id \in ReviewedPoints)]_vars

(* C30: a bulk review action (delete, ignore, restore or remove) on selected  *)
(* flagged_points rows, identified by their database ids, changes the status  *)
(* of or removes exactly the selected rows; every row that was not selected   *)
(* keeps its status and stays in the table, including rows that share a       *)
(* point_id with a selected row under a different detection_reason.           *)
ReviewStep == review_call'.seq # review_call.seq

Selected == {r \in flagged_points : r.id \in review_call'.db_ids}

\* what the action did to row r
Marked(r, status, t) == [r EXCEPT !.status = status, !.reviewed_at = t] \in flagged_points'
Gone(r) == \A x \in flagged_points' : x.id # r.id

Handled(r) ==
    CASE review_call'.action = "delete" -> Marked(r, "deleted", now)
      [] review_call'.action = "ignore" -> Marked(r, "ignored", now)
      [] OTHER -> Gone(r)

C30_ExactlyTheSelectedRows ==
    [][(ReviewStep /\ review_call'.ok) =>
           /\ \A r \in Selected : Handled(r)
           /\ \A r \in flagged_points \ Selected : r \in flagged_points']_vars

(* C30, amended: a bulk review action works on points, not on rows: it       *)
(* changes the status of or removes every row whose point_id is the point_id *)
(* of a selected row, whatever its detection_reason and whether or not it    *)
(* was selected; rows of other points keep their status and stay; no row is  *)
(* added; and when the Dawarich call of delete or restore fails no row is    *)
(* changed.                                                                  *)
SelectedPoints == {r.point_id : r \in Selected}

C30_EveryRowOfTheSelectedPoints ==
    [][ReviewStep =>
           IF review_call'.ok
           THEN /\ \A r \in flagged_points :
                       IF r.point_id \in SelectedPoints THEN Handled(r)
                       ELSE r \in flagged_points'
                /\ Cardinality(flagged_points') <= Cardinality(flagged_points)
           ELSE flagged_points' = flagged_points]_vars

\* an ignore action has marked a row that was not selected, next to a pending
\* row of another point that it left alone
C30_Witness ==
    /\ review_call.action = "ignore"
    /\ review_call.seq > 0
    /\ \E r \in flagged_points :
           /\ r.id \notin review_call.db_ids
           /\ r.status = "ignored"
           /\ r.reviewed_at = now
    /\ \E r \in flagged_points : r.status = "pending"

====
